---------------------------- MODULE Spec2Model ----------------------------
(***************************************************************************)
(* Word Psychic backend (src/backend/app.py): the per-session dialogue     *)
(* state machine behind POST /choose.                                      *)
(*                                                                         *)
(* Text is a sequence of chunks (strings); Python's string concatenation   *)
(* is \o.  A raw answer is a sequence of one-character strings so that     *)
(* strip() and lower() are computed.  Every random draw (random.shuffle,   *)
(* random.choice, random.random) is a nondeterministic choice: the         *)
(* operators that draw return the SET of their possible results.           *)
(* Non-ASCII characters of the source's strings are transliterated.        *)
(***************************************************************************)
EXTENDS Integers, Sequences, FiniteSets, TLC

\* Size of the catalog CLUSTERS used by the model (the source has 25).
NumClusters == 3

\* The value of st["current_idx"] before any offer (Python None).
None == -1

\* The re-offer limit tested in offer_next_word and in choose.
ReofferLimit == 2

Ids == 0 .. (NumClusters - 1)

---------------------------------------------------------------------------
\* Sequence helpers

Range(s) == { s[i] : i \in DOMAIN s }

Last(s) == s[Len(s)]

Front(s) == SubSeq(s, 1, Len(s) - 1)

\* x in list
In(x, s) == \E i \in DOMAIN s : s[i] = x

\* All orders random.shuffle can leave the list s in.
Shuffles(s) ==
    { p \in [DOMAIN s -> Range(s)] :
        \A x \in Range(s) :
            Cardinality({ i \in DOMAIN s : p[i] = x }) =
            Cardinality({ i \in DOMAIN s : s[i] = x }) }

\* sep.join(parts), each part and sep a text
RECURSIVE Join(_, _)
Join(sep, parts) ==
    IF parts = <<>> THEN <<>>
    ELSE IF Len(parts) = 1 THEN parts[1]
    ELSE parts[1] \o sep \o Join(sep, Tail(parts))

---------------------------------------------------------------------------
\* Canonical strings and variation pools

ANOTHER_WORD_PROMPTS ==
    << <<"Would you like another word?">>,
       <<"Shall we draw another word?">>,
       <<"Do you want to receive another word?">> >>

GOODBYES ==
    << <<"Maybe another time.">>,
       <<"Very well -- until we meet again.">>,
       <<"The veil closes. Come back when you're ready.">> >>

\* Each farewell is split before its last character, which closing_block reads.
COURTEOUS_EXIT ==
    << <<"Travel well -- and keep your words sharp and kind", ".">>,
       <<"I wish you a fond goodbye. And may the words be with you", ".">>,
       <<"Farewell. May your vocabulary grow brighter every day", ".">> >>

SHORT_HINT_OPENING == <<"Choose Yes or No.">>

SHORT_HINT == <<"Choose Yes, No, or End session.">>

DECLINE_CONFIRM_PROMPTS ==
    << <<"Very well. Shall I offer another word?">>,
       <<"As you wish. Would you like another word?">>,
       <<"Understood. Shall I reveal another word?">>,
       <<"The word retreates into silence. Shall I call forth another?">>,
       <<"So be it. Shall we draw again from the beyond?">>,
       <<"Fair enough. Shall I offer you a new word?">> >>

INVALID_YN_PROMPTS ==
    << <<"Please choose Yes or No.">>,
       <<"A simple Yes or No will do.">>,
       <<"Click Yes or No to proceed.">>,
       <<"Yes opens the door, no keeps it shut.">>,
       <<"A single Yes or No will guide us forward.">> >>

INVALID_YNE_PROMPTS ==
    << <<"Please choose Yes, No, or End session.">>,
       <<"Click Yes, No, or End session.">>,
       <<"Choose Yes, No, or End session to continue.">>,
       <<"Yes, No, or End session -- your call.">>,
       <<"The veil awaits: Yes, No, or End Session.">> >>

CONTINUE_Q_VARIANTS ==
    << <<"Shall we journey further with this word?">>,
       <<"Do you want to go deeper with this word?">>,
       <<"Would you like to explore this word a little further?">>,
       <<"Shall we go further with this word?">>,
       <<"Do you wish to continue the journey with this word?">> >>

REOFFER_PROMPTS ==
    << <<"You declined some words earlier. Shall I offer them again?">>,
       <<"Some words were set aside. Would you like me to bring them back?">>,
       <<"A few words still linger in the shadows. Shall I offer them again?">>,
       <<"You passed on some words before. Shall we revisit them?">>,
       <<"There are words you turned away. Would you like another chance at them?">> >>

\* random.choice(pool): any entry
Choice(pool) == Range(pool)

choose_decline_confirm == Choice(DECLINE_CONFIRM_PROMPTS)

choose_invalid_yn == Choice(INVALID_YN_PROMPTS)

choose_invalid_yne == Choice(INVALID_YNE_PROMPTS)

choose_continue_q == Choice(CONTINUE_Q_VARIANTS)

choose_reoffer_prompt == Choice(REOFFER_PROMPTS)

choose_another_word == Choice(ANOTHER_WORD_PROMPTS)

choose_goodbye == Choice(GOODBYES)

choose_exit_blessing == Choice(COURTEOUS_EXIT)

---------------------------------------------------------------------------
\* The catalog: the first clusters of CLUSTERS.  A title is its three terms
\* joined by " -> "; a script is kept as one chunk (its opening words).

ARROW == " -> "

ClusterTerms ==
    << <<"Antipathy", "Vilify", "Annihilate">>,
       <<"Prudent", "Revere", "Venerate">>,
       <<"Dearth", "Paucity", "Penury">>,
       <<"Minuscule", "Nominal", "Insignificant">>,
       <<"Aggregate", "Plethora", "Prodigious">>,
       <<"Benevolence", "Philanthropy", "Largess">> >>

ClusterIntroLines ==
    << <<"Your word is 'antipathy.'", "\n\n">>,
       <<"Your word is 'prudent.'", "\n\n">>,
       <<"Your word is 'dearth.'", "\n\n">>,
       <<"Your word is 'minuscule.'", "\n\n">>,
       <<"Your word is 'aggregate.'", "\n\n">>,
       <<"Your word is 'benevolence.'", "\n\n">> >>

ClusterScripts ==
    << <<"Antipathy means a strong dislike. ...">>,
       <<"Prudent means being careful and wise. ...">>,
       <<"Dearth means a lack. A scarcity. ...">>,
       <<"Minuscule means extremely small. ...">>,
       <<"Aggregate means a collection, a sum, a total. ...">>,
       <<"Benevolence means kindness. ...">> >>

CLUSTERS ==
    [ i \in Ids |->
        [ title      |-> Join(<<ARROW>>, [k \in 1..3 |-> <<ClusterTerms[i + 1][k]>>]),
          intro_line |-> ClusterIntroLines[i + 1],
          continue_q |-> <<"Shall we journey further with this word?">>,
          script     |-> ClusterScripts[i + 1] ] ]

\* title.split(" -> ")[0]: the chunks before the first separator
RECURSIVE SplitHead(_, _)
SplitHead(text, sep) ==
    IF text = <<>> \/ Head(text) = sep THEN <<>>
    ELSE <<Head(text)>> \o SplitHead(Tail(text), sep)

---------------------------------------------------------------------------
\* Intent normalizer

Whitespace == { " ", "\t", "\n", "\r" }

UpperCase == << "A", "B", "C", "D", "E", "F", "G", "H", "I", "J", "K", "L", "M",
                "N", "O", "P", "Q", "R", "S", "T", "U", "V", "W", "X", "Y", "Z" >>

LowerCase == << "a", "b", "c", "d", "e", "f", "g", "h", "i", "j", "k", "l", "m",
                "n", "o", "p", "q", "r", "s", "t", "u", "v", "w", "x", "y", "z" >>

\* str.lower() on one character
LowerChar(c) ==
    IF \E i \in DOMAIN UpperCase : UpperCase[i] = c
    THEN LowerCase[CHOOSE i \in DOMAIN UpperCase : UpperCase[i] = c]
    ELSE c

Lower(a) == [ i \in DOMAIN a |-> LowerChar(a[i]) ]

RECURSIVE LStrip(_)
LStrip(a) ==
    IF a # <<>> /\ Head(a) \in Whitespace THEN LStrip(Tail(a)) ELSE a

RECURSIVE RStrip(_)
RStrip(a) ==
    IF a # <<>> /\ Last(a) \in Whitespace THEN RStrip(Front(a)) ELSE a

Strip(a) == RStrip(LStrip(a))

YES == << "y", "e", "s" >>

NO == << "n", "o" >>

QUIT == << "q", "u", "i", "t" >>

STOP == << "s", "t", "o", "p" >>

NormalizeLeftStripOnly(raw) ==
    LET a == Lower(LStrip(raw)) IN
    IF a \in { <<"y">>, YES } THEN YES
    ELSE IF a \in { <<"n">>, NO } THEN NO
    ELSE IF a \in { <<"q">>, QUIT } THEN QUIT
    ELSE IF a \in { <<"s">>, STOP, <<"e", "n", "o", "u", "g", "h">>, <<"e", "n", "d">> }
         THEN STOP
    ELSE a

normalize(raw) ==
    LET a == Lower(Strip(raw)) IN
    IF a \in { <<"y">>, YES } THEN YES
    ELSE IF a \in { <<"n">>, NO } THEN NO
    ELSE IF a \in { <<"q">>, QUIT } THEN QUIT
    ELSE IF a \in { <<"s">>, STOP, <<"e", "n", "o", "u", "g", "h">>, <<"e", "n", "d">> }
         THEN STOP
    ELSE a

---------------------------------------------------------------------------
\* Session helpers

\* The session identifier issued by /start (one uuid4 string).
SID == "sid-1"

\* new_session(): one session per order random.shuffle can produce
new_session ==
    { [ sid               |-> None,
        INSTRUCTION_SHOWN |-> FALSE,
        SHORT_HINT_SHOWN  |-> FALSE,
        remaining         |-> idxs,
        rejected          |-> <<>>,
        words_revealed    |-> <<>>,
        first_offer_done  |-> FALSE,
        reoffer_attempts  |-> 0,
        phase             |-> "intro",
        current_idx       |-> None ]
      : idxs \in Shuffles([ i \in 1 .. NumClusters |-> i - 1 ]) }

ReplyDropsDone(s, text, done) ==
    [ text |-> text, done |-> FALSE, context |-> [ session_id |-> s.sid ] ]

reply(s, text, done) ==
    [ text |-> text, done |-> done, context |-> [ session_id |-> s.sid ] ]

\* guidance_flow(st, opening=...): the session as it leaves it, and the line
\* returned (<<>> for None)
\* The opening line of guidance_flow
OPENING_HINT == <<"Yes opens the door, no keeps it shut.">>

GuidanceRepeatsOpening(s, opening) ==
    IF opening \/ ~s.SHORT_HINT_SHOWN
    THEN [ st |-> [ s EXCEPT !.INSTRUCTION_SHOWN = TRUE, !.SHORT_HINT_SHOWN = TRUE ],
           g  |-> OPENING_HINT ]
    ELSE [ st |-> s, g |-> <<>> ]

guidance_flow(s, opening) ==
    IF opening /\ ~s.INSTRUCTION_SHOWN
    THEN [ st |-> [ s EXCEPT !.INSTRUCTION_SHOWN = TRUE, !.SHORT_HINT_SHOWN = FALSE ],
           g  |-> OPENING_HINT ]
    ELSE IF s.INSTRUCTION_SHOWN /\ ~s.SHORT_HINT_SHOWN
    THEN [ st |-> [ s EXCEPT !.SHORT_HINT_SHOWN = TRUE ], g |-> SHORT_HINT ]
    ELSE [ st |-> s, g |-> <<>> ]

SummarySkipsFirst(words) ==
    IF words = <<>>
    THEN <<"No words were revealed this time. The veil remains for another day.">>
    ELSE <<"Here are the words that visited you from the beyond:", "\n\n">>
         \o Join(<<"\n\n">>, Tail(words))

summary_text(words) ==
    IF words = <<>>
    THEN <<"No words were revealed this time. The veil remains for another day.">>
    ELSE <<"Here are the words that visited you from the beyond:", "\n\n">>
         \o Join(<<"\n\n">>, words)

\* The farewell line as closing_block appends it
Punctuated(line) ==
    LET blessing == RStrip(line) IN
    IF Last(blessing) \in { ".", "!", "?" } THEN blessing ELSE blessing \o <<".">>

Encouragement ==
    <<"\n\n", "Carry these words carefully; they will open doors when you need them.">>

\* closing_block(st): one text per farewell that can be drawn
closing_block(s) ==
    LET closing == summary_text(s.words_revealed)
                   \o (IF s.words_revealed # <<>> THEN Encouragement ELSE <<>>)
    IN  { closing \o <<"\n">> \o Punctuated(line) : line \in choose_exit_blessing }

\* pick_continue_question(cluster): the authored question (random() < 0.35)
\* or a variant
pick_continue_question(cluster) ==
    LET base == Strip(cluster.continue_q) IN
    (IF base # <<>> THEN { base } ELSE {}) \union choose_continue_q

---------------------------------------------------------------------------
\* Offer-Next.  An outcome is the session as the call leaves it and the reply.

Outcome(s, text, done) == [ st |-> s, resp |-> reply(s, text, done) ]

AskedTwice ==
    <<"I have asked you twice about the words you set aside. The veil closes for today.">>

SessionComplete ==
    <<"Very well. The session is complete. May the meanings serve you.">>

SpiritsQuiet == <<"The spirits are quiet. Please refresh to begin anew.">>

AllReceived == <<"You have received all available words for this session.", "\n">>

\* The list st["remaining"].pop() leaves behind (it returns Last)
PopKeeps(list) == list

Pop(list) == Front(list)

\* st["reoffer_attempts"] >= 2
LimitOffByOne(s) == s.reoffer_attempts > ReofferLimit

reoffer_limit_reached(s) == s.reoffer_attempts >= ReofferLimit

\* The texts of the exhaustion terminal: the framing line, then closing_block
AllReceivedWithoutSummary(s) == { AllReceived }

all_received_text(s) == { AllReceived \o text : text \in closing_block(s) }

offer_next_word(s) ==
    IF s.remaining # <<>>
    THEN LET idx     == Last(s.remaining)
             s1      == [ s EXCEPT !.remaining = Pop(@),
                                   !.current_idx = idx,
                                   !.phase = "await_continue" ]
             cluster == CLUSTERS[idx]
             intro   == IF s1.first_offer_done
                        THEN <<"Your new word is '">>
                             \o SplitHead(cluster.title, ARROW)
                             \o <<".'", "\n\n">>
                        ELSE cluster.intro_line
             gf      == guidance_flow(s1, ~s1.first_offer_done)
         IN  { Outcome(gf.st,
                       intro \o continue_q
                             \o (IF gf.g # <<>> THEN <<"\n">> \o gf.g ELSE <<>>),
                       FALSE)
               : continue_q \in pick_continue_question(cluster) }
    ELSE IF s.rejected # <<>>
    THEN IF reoffer_limit_reached(s)
         THEN LET s1 == [ s EXCEPT !.phase = "done" ] IN
              IF s1.words_revealed # <<>>
              THEN { Outcome(s1, text, TRUE) : text \in closing_block(s1) }
              ELSE { Outcome(s1, AskedTwice, TRUE) }
         ELSE LET s1 == [ s EXCEPT !.phase = "reoffer_prompt",
                                   !.reoffer_attempts = @ + 1,
                                   !.SHORT_HINT_SHOWN = FALSE ]
              IN  { Outcome(s1, text, FALSE) : text \in choose_reoffer_prompt }
    ELSE LET s1 == [ s EXCEPT !.phase = "done" ] IN
         { Outcome(s1, text, TRUE) : text \in all_received_text(s1) }

---------------------------------------------------------------------------
\* POST /choose on the session get_session returned, one branch per phase

IntroOtherEnds(s, a) ==
    IF a = YES
    THEN offer_next_word([ s EXCEPT !.first_offer_done = FALSE ])
    ELSE LET s1 == [ s EXCEPT !.phase = "done" ] IN
         { Outcome(s1, text, TRUE) : text \in choose_goodbye }

IntroNoShowsSummary(s, a) ==
    IF a = YES
    THEN offer_next_word([ s EXCEPT !.first_offer_done = FALSE ])
    ELSE IF a = NO
    THEN LET s1 == [ s EXCEPT !.phase = "done" ] IN
         { Outcome(s1, text, TRUE) : text \in closing_block(s1) }
    ELSE { Outcome(s, text, FALSE) : text \in choose_invalid_yn }

phase_intro(s, a) ==
    IF a = YES
    THEN offer_next_word([ s EXCEPT !.first_offer_done = FALSE ])
    ELSE IF a = NO
    THEN LET s1 == [ s EXCEPT !.phase = "done" ] IN
         { Outcome(s1, text, TRUE) : text \in choose_goodbye }
    ELSE { Outcome(s, text, FALSE) : text \in choose_invalid_yn }

\* st["words_revealed"].append(title)
AcceptInFront(s, title) == [ s EXCEPT !.words_revealed = <<title>> \o @ ]

AcceptAlsoDeclines(s, title) ==
    [ s EXCEPT !.words_revealed = Append(@, title),
               !.rejected = Append(@, s.current_idx) ]

accept(s, title) == [ s EXCEPT !.words_revealed = Append(@, title) ]

phase_await_continue(s, a) ==
    LET idx == s.current_idx IN
    IF a = YES
    THEN IF idx = None
         THEN LET s1 == [ s EXCEPT !.phase = "done" ] IN
              { Outcome(s1, SpiritsQuiet, TRUE) }
         ELSE LET cluster == CLUSTERS[idx]
                  s1 == [ accept(s, cluster.title) EXCEPT
                                   !.first_offer_done = TRUE,
                                   !.SHORT_HINT_SHOWN = FALSE,
                                   !.phase = "post_reveal" ]
                  gf == guidance_flow(s1, FALSE)
              IN  { Outcome(gf.st,
                            cluster.script \o <<"\n\n">> \o <<"\n\n">> \o another
                                \o (IF gf.g # <<>> THEN <<"\n">> \o gf.g ELSE <<>>),
                            FALSE)
                    : another \in choose_another_word }
    ELSE IF a = NO
    THEN LET s1 == IF idx # None /\ ~In(idx, s.rejected)
                   THEN [ s EXCEPT !.rejected = Append(@, idx) ]
                   ELSE s
             s2 == [ s1 EXCEPT !.first_offer_done = TRUE,
                               !.phase = "decline_confirm",
                               !.SHORT_HINT_SHOWN = FALSE ]
         IN  { Outcome(s2, text, FALSE) : text \in choose_decline_confirm }
    ELSE { Outcome(s, text, FALSE) : text \in choose_invalid_yne }

phase_decline_confirm(s, a) ==
    IF a = YES
    THEN offer_next_word(s)
    ELSE IF a = NO
    THEN LET s1 == [ s EXCEPT !.phase = "done" ] IN
         { Outcome(s1, text, TRUE) : text \in closing_block(s1) }
    ELSE { Outcome(s, text, FALSE) : text \in choose_invalid_yne }

phase_post_reveal(s, a) ==
    IF a = YES
    THEN offer_next_word(s)
    ELSE IF a = NO
    THEN LET s1 == [ s EXCEPT !.phase = "done" ] IN
         { Outcome(s1, text, TRUE) : text \in closing_block(s1) }
    ELSE { Outcome(s, text, FALSE) : text \in choose_invalid_yne }

\* The declined pool moved back into remaining, in every order the shuffle
\* can produce
RecycleKeepsRejected(s) ==
    { [ s EXCEPT !.remaining = pool, !.first_offer_done = TRUE ]
      : pool \in Shuffles(s.rejected) }

RecycleWithoutRefill(s) ==
    { [ s EXCEPT !.rejected = <<>>, !.first_offer_done = TRUE ] }

RecycleLosesOne(s) ==
    { [ s EXCEPT !.remaining = Front(pool), !.rejected = <<>>,
                 !.first_offer_done = TRUE ]
      : pool \in Shuffles(s.rejected) }

recycle_rejected(s) ==
    { [ s EXCEPT !.remaining = pool, !.rejected = <<>>, !.first_offer_done = TRUE ]
      : pool \in Shuffles(s.rejected) }

\* The texts the non-yes branch of reoffer_prompt can return
DeclineTextWithoutSummary(s) ==
    { IF s.reoffer_attempts >= ReofferLimit THEN AskedTwice ELSE SessionComplete }

DeclineTextAlwaysAskedTwice(s) ==
    IF s.words_revealed # <<>> THEN closing_block(s) ELSE { AskedTwice }

reoffer_decline_text(s) ==
    LET text == IF s.reoffer_attempts >= ReofferLimit
                THEN AskedTwice ELSE SessionComplete
    IN  IF s.words_revealed # <<>> THEN closing_block(s) ELSE { text }

ReofferOtherReprompts(s, a) ==
    IF a = YES
    THEN UNION { offer_next_word(s1) : s1 \in recycle_rejected(s) }
    ELSE IF a = NO
    THEN LET s1 == [ s EXCEPT !.phase = "done" ] IN
         { Outcome(s1, text, TRUE) : text \in reoffer_decline_text(s1) }
    ELSE { Outcome(s, text, FALSE) : text \in choose_invalid_yne }

phase_reoffer_prompt(s, a) ==
    IF a = YES
    THEN UNION { offer_next_word(s1) : s1 \in recycle_rejected(s) }
    ELSE LET s1 == [ s EXCEPT !.phase = "done" ] IN
         { Outcome(s1, text, TRUE) : text \in reoffer_decline_text(s1) }

\* The fall-through after the phase dispatch (phase done)
DoneReopens(s, a) == { Outcome(s, SpiritsQuiet, FALSE) }

phase_done(s, a) ==
    LET s1 == [ s EXCEPT !.phase = "done" ] IN
    { Outcome(s1, SpiritsQuiet, TRUE) }

\* a in {"quit", "stop"}
OnlyQuitEnds(a) == a = QUIT

is_end(a) == a \in { QUIT, STOP }

choose(s, raw) ==
    LET a == normalize(raw) IN
    IF is_end(a)
    THEN LET s1 == [ s EXCEPT !.phase = "done" ] IN
         { Outcome(s1, text, TRUE) : text \in closing_block(s1) }
    ELSE IF s.phase = "intro" THEN phase_intro(s, a)
    ELSE IF s.phase = "await_continue" THEN phase_await_continue(s, a)
    ELSE IF s.phase = "decline_confirm" THEN phase_decline_confirm(s, a)
    ELSE IF s.phase = "post_reveal" THEN phase_post_reveal(s, a)
    ELSE IF s.phase = "reoffer_prompt" THEN phase_reoffer_prompt(s, a)
    ELSE phase_done(s, a)

---------------------------------------------------------------------------
\* One session driven one Submit at a time.

VARIABLES
    st,        \* the session SESSIONS[sid]
    resp,      \* the last response sent
    answer,    \* req.answer of the last POST /choose
    prev,      \* the session as the last POST /choose found it
    offers,    \* history: how many times each cluster became the current one
    declined,  \* history: whether the user answered no at a cluster's last offer
    yeses,     \* history: the clusters the user answered yes to, in that order
    turns,     \* history: the yes/no answers sent while the session was not done
    declines,  \* history: how many offers of each cluster the user answered no to
    hinted     \* history: how many offers carried the opening hint, the short
               \* hint (counted up to ManyHints)

\* The session store with several sessions (specification SpecStore)
VARIABLES
    SESSIONS,  \* the dict SESSIONS: session id -> session object
    heap,      \* the list objects the session objects refer to, by address
    request,   \* the last request received
    response,  \* the session id and the terminal flag of the last response
    before,    \* the sessions (by value) as the last request found them
    requests   \* how many requests were served

\* Two requests served at once on one session (specification SpecConc)
VARIABLES
    cs,        \* the session object both requests work on
    pc,        \* per request: the line of app.py it executes next
    loc,       \* per request: its local variables a, idx and temporaries
    entered    \* history: how many times phase was set to reoffer_prompt

\* The normalizer on its own (specification SpecNorm)
VARIABLES
    a_raw,     \* the text given to normalize
    a_norm,    \* normalize(a_raw), once computed
    a_again,   \* normalize(a_norm), once computed
    a_calls    \* how many of the two calls were made

sessionVars == << st, resp, answer, prev, offers, declined, yeses, turns, declines, hinted >>

storeVars == << SESSIONS, heap, request, response, before, requests >>

concVars == << cs, pc, loc, entered >>

normVars == << a_raw, a_norm, a_again, a_calls >>

vars == << sessionVars, storeVars, concVars, normVars >>

\* The store is not part of the one-session specification
StoreIdle ==
    /\ SESSIONS = << >>
    /\ heap = << >>
    /\ request = [ op |-> "none" ]
    /\ response = [ session_id |-> "" ]
    /\ before = << >>
    /\ requests = 0

\* Nor is the normalizer on its own
NormIdle ==
    /\ a_raw = << >>
    /\ a_norm = << >>
    /\ a_again = << >>
    /\ a_calls = 0

\* Nor are the two concurrent requests
ConcIdle ==
    /\ cs = [ phase |-> "none" ]
    /\ pc = << >>
    /\ loc = << >>
    /\ entered = 0

\* The raw answers the client sends
\* The hint counters stop at ManyHints = ReofferLimit: once, or more than once
ManyHints == ReofferLimit

CountHint(n, hint, text) == IF In(hint, text) /\ n < ManyHints THEN n + 1 ELSE n

RawAnswers ==
    { << "Y", "e", "s" >>,
      << "n" >>,
      << " ", "N", "O", "\n" >>,
      << "q", "u", "i", "t" >>,
      << "E", "n", "d" >>,
      << "m", "a", "y", "b", "e" >>,
      << >> }

\* GET /start: a new session stored under a new id, and the opening prompt
start ==
    { [ st   |-> [ s EXCEPT !.sid = SID, !.phase = "intro" ],
        resp |-> [ session_id |-> SID,
                   prompt     |-> <<>>,
                   guidance   |-> <<"Do you wish to summon the Word Psychic, who through the meanings of words deciphers your fortune?", "\n">>
                                  \o SHORT_HINT_OPENING ] ]
      : s \in new_session }

Init ==
    /\ \E o \in start : st = o.st /\ resp = o.resp
    /\ answer = <<>>
    /\ prev = st
    /\ offers = [ i \in Ids |-> 0 ]
    /\ declined = [ i \in Ids |-> FALSE ]
    /\ yeses = <<>>
    /\ turns = 0
    /\ declines = [ i \in Ids |-> 0 ]
    /\ hinted = [ opening |-> 0, short |-> 0 ]
    /\ StoreIdle
    /\ ConcIdle
    /\ NormIdle

\* A reply of POST /choose (the response of /start has no "done")
Submitted == "done" \in DOMAIN resp

\* POST /choose with answer raw
Submit(raw) ==
    \E o \in choose(st, raw) :
        /\ st' = o.st
        /\ resp' = o.resp
        /\ answer' = raw
        /\ prev' = st
        /\ offers' = IF st.phase # "await_continue" /\ o.st.phase = "await_continue"
                     THEN [ offers EXCEPT ![o.st.current_idx] = @ + 1 ]
                     ELSE offers
        /\ declined' = IF st.phase = "await_continue" /\ st.current_idx \in Ids
                          /\ normalize(raw) \in { YES, NO }
                       THEN [ declined EXCEPT ![st.current_idx] = (normalize(raw) = NO) ]
                       ELSE declined
        /\ yeses' = IF st.phase = "await_continue" /\ st.current_idx \in Ids
                       /\ normalize(raw) = YES
                    THEN Append(yeses, st.current_idx)
                    ELSE yeses
        /\ turns' = IF st.phase # "done" /\ normalize(raw) \in { YES, NO }
                    THEN turns + 1
                    ELSE turns
        /\ declines' = IF st.phase = "await_continue" /\ st.current_idx \in Ids
                          /\ normalize(raw) = NO
                       THEN [ declines EXCEPT ![st.current_idx] = @ + 1 ]
                       ELSE declines
        /\ hinted' = IF st.phase # "await_continue" /\ o.st.phase = "await_continue"
                     THEN [ opening |-> CountHint(hinted.opening, OPENING_HINT[1], o.resp.text),
                            short   |-> CountHint(hinted.short, SHORT_HINT[1], o.resp.text) ]
                     ELSE hinted
        /\ UNCHANGED << storeVars, concVars, normVars >>

Next == \E raw \in RawAnswers : Submit(raw)

Spec == Init /\ [][Next]_vars

---------------------------------------------------------------------------
\* The session store: SESSIONS and get_session, with several sessions.  A
\* session object holds its three lists by address, so that two objects could
\* share a list; Deref reads an object as the value the handlers work on.

\* How many sessions the store may come to hold, and how many requests are
\* served
MaxSessions == 2

MaxRequests == 4

\* The ids uuid4 returns, in the order it returns them: each call gives an id
\* that no earlier call gave (which ids they are does not matter)
SidPool == << "sid-1", "sid-2", "sid-3", "sid-4" >>

\* A session id of an earlier process, and the absent id (None or "")
StaleSid == "sid-expired"

NoSid == ""

ListFields == { "remaining", "rejected", "words_revealed" }

Deref(h, obj) ==
    [ obj EXCEPT !.remaining = h[obj.remaining],
                 !.rejected = h[obj.rejected],
                 !.words_revealed = h[obj.words_revealed] ]

\* The store by value
Values(S, h) == [ sid \in DOMAIN S |-> Deref(h, S[sid]) ]

\* new_session() building its three lists: the object and the heap with them
InternSharedRemaining(h, s) ==
    LET shared == IF Len(h) >= 1 THEN 1 ELSE Len(h) + 1 IN
    [ obj  |-> [ s EXCEPT !.remaining = shared,
                          !.rejected = Len(h) + 2,
                          !.words_revealed = Len(h) + 3 ],
      heap |-> h \o << s.remaining, s.rejected, s.words_revealed >> ]

Intern(h, s) ==
    [ obj  |-> [ s EXCEPT !.remaining = Len(h) + 1,
                          !.rejected = Len(h) + 2,
                          !.words_revealed = Len(h) + 3 ],
      heap |-> h \o << s.remaining, s.rejected, s.words_revealed >> ]

\* The handler's effect v on the object obj: pop and append change the lists
\* in place; yes in reoffer_prompt binds remaining and rejected to new lists
Rebinds(old, raw) ==
    /\ ~is_end(normalize(raw))
    /\ old.phase = "reoffer_prompt"
    /\ normalize(raw) = YES

WriteBack(h, obj, v, rebinds) ==
    IF rebinds
    THEN [ obj  |-> [ v EXCEPT !.remaining = Len(h) + 1,
                               !.rejected = Len(h) + 2,
                               !.words_revealed = obj.words_revealed ],
           heap |-> [ h EXCEPT ![obj.words_revealed] = v.words_revealed ]
                    \o << v.remaining, v.rejected >> ]
    ELSE [ obj  |-> [ v EXCEPT !.remaining = obj.remaining,
                               !.rejected = obj.rejected,
                               !.words_revealed = obj.words_revealed ],
           heap |-> [ h EXCEPT ![obj.remaining] = v.remaining,
                               ![obj.rejected] = v.rejected,
                               ![obj.words_revealed] = v.words_revealed ] ]

\* str(uuid4())
uuid4(S) ==
    LET free == { k \in DOMAIN SidPool : SidPool[k] \notin DOMAIN S } IN
    { SidPool[k] : k \in { k \in free : \A j \in free : k <= j } }

\* sid = ctx.get("session_id") or request.cookies.get("wp_sid")
requested_sid(ctx_sid, cookie) == IF ctx_sid # NoSid THEN ctx_sid ELSE cookie

\* get_session: the stores (with their heaps) it can leave and the id it
\* returns.  The fallback stores a new session under a new id.
GetSessionForgetsToStore(S, h, ctx_sid, cookie) ==
    LET sid == requested_sid(ctx_sid, cookie) IN
    IF sid = NoSid \/ sid \notin DOMAIN S
    THEN { [ sid |-> new, SESSIONS |-> S, heap |-> h,
             session |-> [ s EXCEPT !.sid = new ] ]
           : new \in uuid4(S), s \in new_session }
    ELSE { [ sid |-> sid, SESSIONS |-> S, heap |-> h, session |-> Deref(h, S[sid]) ] }

get_session(S, h, ctx_sid, cookie) ==
    LET sid == requested_sid(ctx_sid, cookie) IN
    IF sid = NoSid \/ sid \notin DOMAIN S
    THEN { LET made == Intern(h, [ s EXCEPT !.sid = new ]) IN
           [ sid |-> new, SESSIONS |-> (new :> made.obj) @@ S, heap |-> made.heap,
             session |-> [ s EXCEPT !.sid = new ] ]
           : new \in uuid4(S), s \in new_session }
    ELSE { [ sid |-> sid, SESSIONS |-> S, heap |-> h, session |-> Deref(h, S[sid]) ] }

\* The ids a client may send: none, an expired one, or a stored one; it
\* sends them in the request context, in the cookie, or in both
ClientSids == { NoSid, StaleSid } \cup DOMAIN SESSIONS

ClientRequests ==
    { << sid, NoSid >> : sid \in ClientSids }
    \cup { << NoSid, sid >> : sid \in ClientSids }
    \cup { << StaleSid, sid >> : sid \in DOMAIN SESSIONS }

\* The answers sent in this specification
StoreAnswers == { << "y" >>, << "N", "o" >>, << "s", "t", "o", "p" >>, << "?" >> }

\* The orders random.shuffle gives in this specification: the catalog order
\* and its reverse (Spec draws every order)
StoreShuffles ==
    { [ k \in 1..NumClusters |-> k - 1 ], [ k \in 1..NumClusters |-> NumClusters - k ] }

Drawn(s) == s.remaining \in StoreShuffles

\* What the properties of the store read of an outcome of choose
Served(o) ==
    [ st |-> o.st, session_id |-> o.resp.context.session_id, done |-> o.resp.done ]

\* The one-session variables are not part of the store specification
SessionIdle ==
    /\ st = [ phase |-> "none" ]
    /\ resp = [ session_id |-> NoSid ]
    /\ answer = <<>>
    /\ prev = st
    /\ offers = << >>
    /\ declined = << >>
    /\ yeses = <<>>
    /\ turns = 0
    /\ declines = << >>
    /\ hinted = << >>

StoreInit ==
    /\ SESSIONS = << >>
    /\ heap = << >>
    /\ request = [ op |-> "none" ]
    /\ response = [ session_id |-> NoSid ]
    /\ before = << >>
    /\ requests = 0
    /\ SessionIdle
    /\ ConcIdle
    /\ NormIdle

\* GET /start
StartSession ==
    /\ requests < MaxRequests
    /\ Cardinality(DOMAIN SESSIONS) < MaxSessions
    /\ \E sid \in uuid4(SESSIONS), s \in { x \in new_session : Drawn(x) } :
         LET made == Intern(heap, [ s EXCEPT !.sid = sid, !.phase = "intro" ]) IN
         /\ SESSIONS' = (sid :> made.obj) @@ SESSIONS
         /\ heap' = made.heap
         /\ response' = [ session_id |-> sid ]
    /\ request' = [ op |-> "start" ]
    /\ before' = Values(SESSIONS, heap)
    /\ requests' = requests + 1
    /\ UNCHANGED << sessionVars, concVars, normVars >>

\* POST /choose with context.session_id = ctx_sid, cookie wp_sid = cookie
Choose(ctx_sid, cookie, raw) ==
    /\ requests < MaxRequests
    /\ (requested_sid(ctx_sid, cookie) \notin DOMAIN SESSIONS)
         => Cardinality(DOMAIN SESSIONS) < MaxSessions
    /\ \E got \in { g \in get_session(SESSIONS, heap, ctx_sid, cookie) :
                      g.sid \in DOMAIN SESSIONS \/ Drawn(g.session) } :
       \E o \in { Served(x) : x \in choose(got.session, raw) } :
         LET wrote == IF got.sid \in DOMAIN got.SESSIONS
                      THEN WriteBack(got.heap, got.SESSIONS[got.sid], o.st,
                                     Rebinds(got.session, raw))
                      ELSE [ obj |-> o.st, heap |-> got.heap ]
         IN
         /\ SESSIONS' = IF got.sid \in DOMAIN got.SESSIONS
                        THEN [ got.SESSIONS EXCEPT ![got.sid] = wrote.obj ]
                        ELSE got.SESSIONS
         /\ heap' = wrote.heap
         /\ response' = [ session_id |-> o.session_id, done |-> o.done ]
    /\ request' = [ op |-> "choose", ctx_sid |-> ctx_sid, cookie |-> cookie,
                    answer |-> raw ]
    /\ before' = Values(SESSIONS, heap)
    /\ requests' = requests + 1
    /\ UNCHANGED << sessionVars, concVars, normVars >>

StoreNext ==
    \/ StartSession
    \/ \E ids \in ClientRequests, raw \in StoreAnswers :
         Choose(ids[1], ids[2], raw)

SpecStore == StoreInit /\ [][StoreNext]_vars

---------------------------------------------------------------------------
\* Two POST /choose requests served at once on the same session.  The
\* endpoints are plain functions, which the framework runs on a thread pool,
\* and nothing locks a session: the two handlers interleave between any two
\* statements.  A step below is one statement of app.py, one read or write of
\* a field of the session; pc names the line a request executes next.

Threads == { "r1", "r2" }

IdleLocals == [ a |-> <<>>, idx |-> None, att |-> 0, copy |-> <<>> ]

RECURSIVE Repeat(_, _)
Repeat(seq, n) == IF n = 0 THEN <<>> ELSE seq \o Repeat(seq, n - 1)

Prefixes(seq) == { SubSeq(seq, 1, k) : k \in 0 .. Len(seq) }

\* The sessions that answering one after the other leaves
RECURSIVE Play(_, _)
Play(S, answers) ==
    IF answers = <<>>
    THEN S
    ELSE Play(UNION { { o.st : o \in choose(s, Head(answers)) } : s \in S },
              Tail(answers))

\* The answers given before the two requests meet: every word declined,
\* pass after pass until the session ends; or every word accepted
DeclinePass == << YES >> \o Repeat(<< NO, YES >>, NumClusters)

DeclineAll == Repeat(DeclinePass, ReofferLimit + 1)

AcceptAll == << YES >> \o Repeat(<< YES, YES >>, NumClusters)

ConcScripts == Prefixes(DeclineAll) \cup Prefixes(AcceptAll)

\* The session /start leaves, its shuffle giving the catalog order
ConcStart ==
    { o.st : o \in { x \in start : x.st.remaining = [ k \in 1 .. NumClusters |-> k - 1 ] } }

\* The answers the two requests carry
ConcAnswers == { << "y" >>, << "N", "o" >>, << "s", "t", "o", "p" >>, << "?" >> }

ConcInit ==
    /\ \E script \in ConcScripts : cs \in Play(ConcStart, script)
    /\ pc = [ t \in Threads |-> "idle" ]
    /\ loc = [ t \in Threads |-> IdleLocals ]
    /\ entered = cs.reoffer_attempts
    /\ SessionIdle
    /\ StoreIdle
    /\ NormIdle

Goto(t, line) == pc' = [ pc EXCEPT ![t] = line ]

\* return reply(...): the request is served
Return(t) ==
    /\ pc' = [ pc EXCEPT ![t] = "returned" ]
    /\ loc' = [ loc EXCEPT ![t] = [ IdleLocals EXCEPT !.a = loc[t].a ] ]

\* choose, lines 667-668: get_session finds the session, normalize the answer
Receive(t, raw) ==
    /\ pc[t] = "idle"
    /\ loc' = [ loc EXCEPT ![t].a = normalize(raw) ]
    /\ Goto(t, IF is_end(normalize(raw)) THEN "672" ELSE "676")
    /\ UNCHANGED << cs, entered, sessionVars, storeVars, normVars >>

\* lines 671-673
StepEnd(t) ==
    /\ pc[t] = "672"
    /\ cs' = [ cs EXCEPT !.phase = "done" ]
    /\ Return(t)
    /\ UNCHANGED << entered, sessionVars, storeVars, normVars >>

\* lines 676-684
StepIntro(t) ==
    /\ \/ /\ pc[t] = "676"
          /\ Goto(t, IF cs.phase # "intro" THEN "687"
                     ELSE IF loc[t].a = YES THEN "678"
                     ELSE IF loc[t].a = NO THEN "681"
                     ELSE "684")
          /\ UNCHANGED << cs, loc >>
       \/ /\ pc[t] = "678"
          /\ cs' = [ cs EXCEPT !.first_offer_done = FALSE ]
          /\ Goto(t, "595")
          /\ UNCHANGED loc
       \/ /\ pc[t] = "681"
          /\ cs' = [ cs EXCEPT !.phase = "done" ]
          /\ Return(t)
       \/ /\ pc[t] = "684"
          /\ Return(t)
          /\ UNCHANGED cs
    /\ UNCHANGED << entered, sessionVars, storeVars, normVars >>

\* lines 687-719
StepAwait(t) ==
    /\ \/ /\ pc[t] = "687"
          /\ Goto(t, IF cs.phase = "await_continue" THEN "688" ELSE "722")
          /\ UNCHANGED << cs, loc >>
       \/ /\ pc[t] = "688"
          /\ loc' = [ loc EXCEPT ![t].idx = cs.current_idx ]
          /\ Goto(t, IF loc[t].a = YES
                     THEN IF cs.current_idx = None THEN "693" ELSE "696"
                     ELSE IF loc[t].a = NO
                     THEN IF cs.current_idx = None THEN "712" ELSE "709"
                     ELSE "719")
          /\ UNCHANGED cs
       \/ /\ pc[t] = "693"
          /\ cs' = [ cs EXCEPT !.phase = "done" ]
          /\ Return(t)
       \/ /\ pc[t] = "696"
          /\ cs' = accept(cs, CLUSTERS[loc[t].idx].title)
          /\ Goto(t, "697")
          /\ UNCHANGED loc
       \/ /\ pc[t] = "697"
          /\ cs' = [ cs EXCEPT !.first_offer_done = TRUE ]
          /\ Goto(t, "698")
          /\ UNCHANGED loc
       \/ /\ pc[t] = "698"
          /\ cs' = [ cs EXCEPT !.SHORT_HINT_SHOWN = FALSE ]
          /\ Goto(t, "700")
          /\ UNCHANGED loc
       \/ /\ pc[t] = "700"
          /\ cs' = [ cs EXCEPT !.phase = "post_reveal" ]
          /\ Goto(t, "702")
          /\ UNCHANGED loc
       \/ /\ pc[t] = "702"
          /\ cs' = guidance_flow(cs, FALSE).st
          /\ Return(t)
       \/ /\ pc[t] = "709"
          /\ Goto(t, IF In(loc[t].idx, cs.rejected) THEN "712" ELSE "710")
          /\ UNCHANGED << cs, loc >>
       \/ /\ pc[t] = "710"
          /\ cs' = [ cs EXCEPT !.rejected = Append(@, loc[t].idx) ]
          /\ Goto(t, "712")
          /\ UNCHANGED loc
       \/ /\ pc[t] = "712"
          /\ cs' = [ cs EXCEPT !.first_offer_done = TRUE ]
          /\ Goto(t, "713")
          /\ UNCHANGED loc
       \/ /\ pc[t] = "713"
          /\ cs' = [ cs EXCEPT !.phase = "decline_confirm" ]
          /\ Goto(t, "714")
          /\ UNCHANGED loc
       \/ /\ pc[t] = "714"
          /\ cs' = [ cs EXCEPT !.SHORT_HINT_SHOWN = FALSE ]
          /\ Return(t)
       \/ /\ pc[t] = "719"
          /\ Return(t)
          /\ UNCHANGED cs
    /\ UNCHANGED << entered, sessionVars, storeVars, normVars >>

\* lines 722-729
StepDecline(t) ==
    /\ \/ /\ pc[t] = "722"
          /\ Goto(t, IF cs.phase # "decline_confirm" THEN "732"
                     ELSE IF loc[t].a = YES THEN "595"
                     ELSE IF loc[t].a = NO THEN "726"
                     ELSE "729")
          /\ UNCHANGED << cs, loc >>
       \/ /\ pc[t] = "726"
          /\ cs' = [ cs EXCEPT !.phase = "done" ]
          /\ Return(t)
       \/ /\ pc[t] = "729"
          /\ Return(t)
          /\ UNCHANGED cs
    /\ UNCHANGED << entered, sessionVars, storeVars, normVars >>

\* lines 732-739
StepPost(t) ==
    /\ \/ /\ pc[t] = "732"
          /\ Goto(t, IF cs.phase # "post_reveal" THEN "742"
                     ELSE IF loc[t].a = YES THEN "595"
                     ELSE IF loc[t].a = NO THEN "736"
                     ELSE "739")
          /\ UNCHANGED << cs, loc >>
       \/ /\ pc[t] = "736"
          /\ cs' = [ cs EXCEPT !.phase = "done" ]
          /\ Return(t)
       \/ /\ pc[t] = "739"
          /\ Return(t)
          /\ UNCHANGED cs
    /\ UNCHANGED << entered, sessionVars, storeVars, normVars >>

\* lines 742-760; line 745 reads rejected, copies it, then binds remaining
StepReoffer(t) ==
    /\ \/ /\ pc[t] = "742"
          /\ Goto(t, IF cs.phase # "reoffer_prompt" THEN "762"
                     ELSE IF loc[t].a = YES THEN "745"
                     ELSE "751")
          /\ UNCHANGED << cs, loc >>
       \/ /\ pc[t] = "745"
          /\ loc' = [ loc EXCEPT ![t].copy = cs.rejected ]
          /\ Goto(t, "745 bind")
          /\ UNCHANGED cs
       \/ /\ pc[t] = "745 bind"
          /\ cs' = [ cs EXCEPT !.remaining = loc[t].copy ]
          /\ loc' = [ loc EXCEPT ![t].copy = <<>> ]
          /\ Goto(t, "746")
       \/ /\ pc[t] = "746"
          /\ \E shuffled \in Shuffles(cs.remaining) :
               cs' = [ cs EXCEPT !.remaining = shuffled ]
          /\ Goto(t, "747")
          /\ UNCHANGED loc
       \/ /\ pc[t] = "747"
          /\ cs' = [ cs EXCEPT !.rejected = <<>> ]
          /\ Goto(t, "748")
          /\ UNCHANGED loc
       \/ /\ pc[t] = "748"
          /\ cs' = [ cs EXCEPT !.first_offer_done = TRUE ]
          /\ Goto(t, "595")
          /\ UNCHANGED loc
       \/ /\ pc[t] = "751"
          /\ cs' = [ cs EXCEPT !.phase = "done" ]
          /\ Return(t)
    /\ UNCHANGED << entered, sessionVars, storeVars, normVars >>

\* lines 762-763
StepQuiet(t) ==
    /\ pc[t] = "762"
    /\ cs' = [ cs EXCEPT !.phase = "done" ]
    /\ Return(t)
    /\ UNCHANGED << entered, sessionVars, storeVars, normVars >>

\* offer_next_word, lines 595-637; pop() of an empty list raises IndexError,
\* and line 629 reads reoffer_attempts, adds one, then writes it
StepOffer(t) ==
    /\ \/ /\ pc[t] = "595"
          /\ Goto(t, IF cs.remaining # <<>> THEN "596" ELSE "615")
          /\ UNCHANGED << cs, loc, entered >>
       \/ /\ pc[t] = "596"
          /\ IF cs.remaining = <<>>
             THEN /\ Goto(t, "raised")
                  /\ UNCHANGED << cs, loc >>
             ELSE /\ loc' = [ loc EXCEPT ![t].idx = Last(cs.remaining) ]
                  /\ cs' = [ cs EXCEPT !.remaining = Pop(@) ]
                  /\ Goto(t, "597")
          /\ UNCHANGED entered
       \/ /\ pc[t] = "597"
          /\ cs' = [ cs EXCEPT !.current_idx = loc[t].idx ]
          /\ Goto(t, "598")
          /\ UNCHANGED << loc, entered >>
       \/ /\ pc[t] = "598"
          /\ cs' = [ cs EXCEPT !.phase = "await_continue" ]
          /\ Goto(t, "610")
          /\ UNCHANGED << loc, entered >>
       \/ /\ pc[t] = "610"
          /\ cs' = guidance_flow(cs, ~cs.first_offer_done).st
          /\ Return(t)
          /\ UNCHANGED entered
       \/ /\ pc[t] = "615"
          /\ Goto(t, IF cs.rejected # <<>> THEN "618" ELSE "635")
          /\ UNCHANGED << cs, loc, entered >>
       \/ /\ pc[t] = "618"
          /\ Goto(t, IF reoffer_limit_reached(cs) THEN "619" ELSE "628")
          /\ UNCHANGED << cs, loc, entered >>
       \/ /\ pc[t] = "619"
          /\ cs' = [ cs EXCEPT !.phase = "done" ]
          /\ Return(t)
          /\ UNCHANGED entered
       \/ /\ pc[t] = "628"
          /\ cs' = [ cs EXCEPT !.phase = "reoffer_prompt" ]
          /\ entered' = entered + 1
          /\ Goto(t, "629")
          /\ UNCHANGED loc
       \/ /\ pc[t] = "629"
          /\ loc' = [ loc EXCEPT ![t].att = cs.reoffer_attempts ]
          /\ Goto(t, "629 store")
          /\ UNCHANGED << cs, entered >>
       \/ /\ pc[t] = "629 store"
          /\ cs' = [ cs EXCEPT !.reoffer_attempts = loc[t].att + 1 ]
          /\ loc' = [ loc EXCEPT ![t].att = 0 ]
          /\ Goto(t, "630")
          /\ UNCHANGED entered
       \/ /\ pc[t] = "630"
          /\ cs' = [ cs EXCEPT !.SHORT_HINT_SHOWN = FALSE ]
          /\ Return(t)
          /\ UNCHANGED entered
       \/ /\ pc[t] = "635"
          /\ cs' = [ cs EXCEPT !.phase = "done" ]
          /\ Return(t)
          /\ UNCHANGED << entered, sessionVars, storeVars, normVars >>
    /\ UNCHANGED << sessionVars, storeVars, normVars >>

Step(t) ==
    \/ \E raw \in ConcAnswers : Receive(t, raw)
    \/ StepEnd(t)
    \/ StepIntro(t)
    \/ StepAwait(t)
    \/ StepDecline(t)
    \/ StepPost(t)
    \/ StepReoffer(t)
    \/ StepQuiet(t)
    \/ StepOffer(t)

ConcNext == \E t \in Threads : Step(t)

SpecConc == ConcInit /\ [][ConcNext]_vars

---------------------------------------------------------------------------
\* normalize on its own: it is applied to a text, then to its own result.

\* Every text of at most MaxTextLen characters of NormAlphabet is tried
MaxTextLen == 3

NormAlphabet == { "y", "Y", "e", "E", "s", "n", "N", "o", " ", "\n", "x" }

Texts(n) == UNION { [ 1 .. k -> NormAlphabet ] : k \in 0 .. n }

\* The entries of the table of lines 539-542, and words close to them
TableWords ==
    { << "y" >>, YES, << "n" >>, NO, << "q" >>, QUIT, << "s" >>, STOP,
      << "e", "n", "o", "u", "g", "h" >>, << "e", "n", "d" >> }

NearWords ==
    { << "y", "e", "a", "h" >>, << "y", "e", "s", "s" >>, << "n", "o", "p", "e" >>,
      << "q", "u", "i", "t", "s" >>, << "s", "t", "o", "p", " ", "i", "t" >>,
      << "e", "n", "d", "s" >>, << "e", "x", "i", "t" >>, << "y", " ", "e", "s" >> }

\* str.upper(), str.capitalize() on these words
Upper(a) ==
    [ i \in DOMAIN a |->
        IF \E k \in DOMAIN LowerCase : LowerCase[k] = a[i]
        THEN UpperCase[CHOOSE k \in DOMAIN LowerCase : LowerCase[k] = a[i]]
        ELSE a[i] ]

Capitalize(a) == [ i \in DOMAIN a |-> IF i = 1 THEN Upper(a)[i] ELSE a[i] ]

Paddings == { << >>, << " " >>, << "\t", "\n" >>, << "\r" >> }

\* The words as a user types them: any case, padded on either side
TypedWords ==
    { before_w \o cased \o after_w :
        before_w \in Paddings, after_w \in Paddings,
        cased \in UNION { { w, Upper(w), Capitalize(w) } : w \in TableWords \cup NearWords } }

NormInputs == Texts(MaxTextLen) \cup TypedWords

NormInit ==
    /\ a_raw \in NormInputs
    /\ a_norm = << >>
    /\ a_again = << >>
    /\ a_calls = 0
    /\ SessionIdle
    /\ StoreIdle
    /\ ConcIdle

\* a = normalize(req.answer)
Normalize ==
    /\ a_calls = 0
    /\ a_norm' = normalize(a_raw)
    /\ a_calls' = 1
    /\ UNCHANGED << a_raw, a_again, sessionVars, storeVars, concVars >>

\* normalize applied to a value it returned
NormalizeAgain ==
    /\ a_calls = 1
    /\ a_again' = normalize(a_norm)
    /\ a_calls' = 2
    /\ UNCHANGED << a_raw, a_norm, sessionVars, storeVars, concVars >>

NormNext == Normalize \/ NormalizeAgain

SpecNorm == NormInit /\ [][NormNext]_vars

---------------------------------------------------------------------------
\* Vocabulary of the properties

Intent == normalize(answer)

Recognized == { YES, NO, QUIT, STOP }

\* The last Submit ran Offer-Next for a cluster (entered await_continue)
Offered == Submitted /\ prev.phase # "await_continue" /\ st.phase = "await_continue"

IsPrefix(s, t) == Len(s) <= Len(t) /\ SubSeq(t, 1, Len(s)) = s

IsSuffix(s, t) == Len(s) <= Len(t) /\ SubSeq(t, Len(t) - Len(s) + 1, Len(t)) = s

NoDuplicates(s) == \A i, j \in DOMAIN s : s[i] = s[j] => i = j

\* The fields of the session other than its phase
SamePools(s, t) == [ s EXCEPT !.phase = "x" ] = [ t EXCEPT !.phase = "x" ]

\* The last Submit called offer_next_word on a session whose remaining pool
\* was empty: yes in decline_confirm or post_reveal (yes in reoffer_prompt
\* refills remaining first, yes in intro finds the fresh pool)
OfferedOnEmpty ==
    /\ Submitted
    /\ Intent = YES
    /\ prev.phase \in { "decline_confirm", "post_reveal" }
    /\ prev.remaining = <<>>

---------------------------------------------------------------------------
\* C1: after every transition no cluster id is both in remaining and in
\* rejected.
C1_PoolsDisjoint ==
    Range(st.remaining) \cap Range(st.rejected) = {}

\* A re-offer pass is under way: some recycled ids are still to be offered and
\* one has been declined again.
C1_Witness ==
    /\ Submitted
    /\ st.reoffer_attempts >= 1
    /\ st.remaining # <<>>
    /\ st.rejected # <<>>

\* C2: a cluster becomes the current cluster a second time only once every
\* cluster has been offered, and only if it was declined at its previous offer.
C2_NoRepeatUntilExhausted ==
    [][ (st.phase # "await_continue" /\ st'.phase = "await_continue"
         /\ offers[st'.current_idx] >= 1)
        => /\ declined[st'.current_idx]
           /\ \A j \in Ids : offers[j] >= 1 ]_vars

\* Some cluster is being offered for the second time.
C2_Witness ==
    /\ Offered
    /\ offers[st.current_idx] = 2

\* C3: accepted holds no title twice and only grows by appending.
C3_AcceptedAppendOnly ==
    /\ NoDuplicates(st.words_revealed)
    /\ Submitted => IsPrefix(prev.words_revealed, st.words_revealed)

\* A second title has just been appended behind the first.
C3_Witness ==
    /\ Submitted
    /\ prev.phase = "await_continue"
    /\ Len(prev.words_revealed) = 1
    /\ Len(st.words_revealed) = 2

\* C4: reoffer_attempts starts at 0, grows by exactly one on each entry into
\* reoffer_prompt and by nothing on any other transition, and never exceeds 2.
C4_ReofferCounter ==
    /\ st.reoffer_attempts \in 0 .. 2
    /\ ~Submitted => st.reoffer_attempts = 0
    /\ Submitted =>
         st.reoffer_attempts =
             prev.reoffer_attempts
             + (IF prev.phase # "reoffer_prompt" /\ st.phase = "reoffer_prompt"
                THEN 1 ELSE 0)

\* reoffer_prompt has just been entered for the second time.
C4_Witness ==
    /\ Submitted
    /\ prev.phase # "reoffer_prompt"
    /\ st.phase = "reoffer_prompt"
    /\ st.reoffer_attempts = 2

\* C5: Offer-Next on an empty remaining pool, a non-empty rejected pool and two
\* re-offer passes already made ends the session: phase done, reoffer_prompt
\* not entered, and the reply is terminal, the Closing Summary if something was
\* accepted and the "asked twice" message otherwise.
C5_ReofferLimitEnds ==
    (OfferedOnEmpty /\ prev.rejected # <<>> /\ prev.reoffer_attempts >= 2)
    => /\ st.phase = "done"
       /\ st.reoffer_attempts = prev.reoffer_attempts
       /\ resp.done
       /\ IF st.words_revealed # <<>>
          THEN resp.text \in closing_block(st)
          ELSE resp.text = AskedTwice

\* The limit is hit with a word accepted: the summary is still returned.
C5_Witness ==
    /\ OfferedOnEmpty
    /\ prev.rejected # <<>>
    /\ prev.reoffer_attempts >= 2
    /\ st.words_revealed # <<>>
    /\ st.phase = "done"

\* C6: from every phase, quit or stop sets phase done and returns the Closing
\* Summary of the accepted titles as a terminal reply.
C6_QuitStopCloses ==
    (Submitted /\ Intent \in { QUIT, STOP })
    => /\ st.phase = "done"
       /\ resp.done
       /\ st.words_revealed = prev.words_revealed
       /\ resp.text \in closing_block(prev)

\* Stop while a cluster is on offer and a title has been accepted.
C6_Witness ==
    /\ Submitted
    /\ Intent = STOP
    /\ prev.phase = "await_continue"
    /\ prev.words_revealed # <<>>
    /\ st.phase = "done"

\* C7: done is absorbing and frozen: a Submit on a done session changes no
\* field of it and returns a terminal reply.
C7_DoneFrozen ==
    (Submitted /\ prev.phase = "done")
    => /\ st = prev
       /\ resp.done

\* A yes sent to a session that is already done.
C7_Witness ==
    /\ Submitted
    /\ prev.phase = "done"
    /\ Intent = YES

\* C8 as stated: in each of the five non-terminal phases an unrecognized
\* intent leaves the session unchanged and gets a non-terminal re-prompt.
C8_OtherUnchangedEverywhere ==
    (Submitted /\ Intent \notin Recognized /\ prev.phase # "done")
    => /\ st = prev
       /\ ~resp.done

\* C8 amended: the same in intro, await_continue, decline_confirm and
\* post_reveal, with the re-prompt of the phase (yes/no in intro, yes/no/end
\* elsewhere); reoffer_prompt is excluded, where any non-yes answer ends the
\* session.
C8_OtherUnchanged ==
    (Submitted /\ Intent \notin Recognized
     /\ prev.phase \in { "intro", "await_continue", "decline_confirm", "post_reveal" })
    => /\ st = prev
       /\ ~resp.done
       /\ resp.text \in (IF prev.phase = "intro"
                         THEN Range(INVALID_YN_PROMPTS)
                         ELSE Range(INVALID_YNE_PROMPTS))

\* An unrecognized answer to the opening question.
C8_Witness ==
    /\ Submitted
    /\ Intent \notin Recognized
    /\ prev.phase = "intro"
    /\ st.phase = "intro"

\* C9: every transition from a phase other than done into done with a
\* non-empty accepted list returns a reply that ends with the Closing Summary
\* of all accepted titles, in acceptance order.
C9_EndingShowsSummary ==
    (Submitted /\ prev.phase # "done" /\ st.phase = "done" /\ st.words_revealed # <<>>)
    => /\ st.words_revealed = prev.words_revealed
       /\ \E closing \in closing_block(prev) : IsSuffix(closing, resp.text)

\* No to the re-offer invitation after a word was accepted.
C9_Witness ==
    /\ Submitted
    /\ prev.phase = "reoffer_prompt"
    /\ Intent = NO
    /\ st.phase = "done"
    /\ st.words_revealed # <<>>

\* C10: the phase changes only along the edges of the transition table; no
\* transition returns to intro, and yes in reoffer_prompt lands in
\* await_continue.
PhaseEdges ==
    { <<"intro", "await_continue">>, <<"intro", "done">>,
      <<"await_continue", "post_reveal">>, <<"await_continue", "decline_confirm">>,
      <<"await_continue", "done">>,
      <<"decline_confirm", "await_continue">>, <<"decline_confirm", "reoffer_prompt">>,
      <<"decline_confirm", "done">>,
      <<"post_reveal", "await_continue">>, <<"post_reveal", "reoffer_prompt">>,
      <<"post_reveal", "done">>,
      <<"reoffer_prompt", "await_continue">>, <<"reoffer_prompt", "done">>,
      <<"done", "done">> }

C10_PhaseEdges ==
    Submitted =>
      /\ prev.phase # st.phase => <<prev.phase, st.phase>> \in PhaseEdges
      /\ prev.phase = "done" => st.phase = "done"
      /\ (prev.phase = "reoffer_prompt" /\ Intent = YES) => st.phase = "await_continue"

\* Yes to the re-offer invitation.
C10_Witness ==
    /\ Submitted
    /\ prev.phase = "reoffer_prompt"
    /\ Intent = YES
    /\ st.phase = "await_continue"

---------------------------------------------------------------------------
\* Reading a reply: the catalog titles a text lists, in the order it lists them

TitleLen == Len(CLUSTERS[0].title)

RECURSIVE ListedTitles(_)
ListedTitles(text) ==
    IF Len(text) < TitleLen THEN <<>>
    ELSE IF \E i \in Ids : SubSeq(text, 1, TitleLen) = CLUSTERS[i].title
    THEN <<SubSeq(text, 1, TitleLen)>>
         \o ListedTitles(SubSeq(text, TitleLen + 1, Len(text)))
    ELSE ListedTitles(Tail(text))

\* How many chunks of text are in the set chunks
Occurrences(text, chunks) == Cardinality({ k \in DOMAIN text : text[k] \in chunks })

\* The titles of the clusters the user said yes to, in that order
AcceptedTitles == [ k \in DOMAIN yeses |-> CLUSTERS[yeses[k]].title ]

NothingRevealedLine ==
    "No words were revealed this time. The veil remains for another day."

SummaryHeaderLine == "Here are the words that visited you from the beyond:"

EncouragementLine ==
    "Carry these words carefully; they will open doors when you need them."

\* C11: Offer-Next on two empty pools ends the session with the "all words
\* received" line followed by the Closing Summary; when the user accepted every
\* cluster at its first offer the summary lists all N titles once each, in
\* the order they were accepted, and no re-offer pass was made.
C11_ExhaustionEnds ==
    (OfferedOnEmpty /\ prev.rejected = <<>>)
    => /\ st.phase = "done"
       /\ resp.done
       /\ \E closing \in closing_block(prev) : resp.text = AllReceived \o closing
       /\ (\A i \in Ids : offers[i] = 1 /\ ~declined[i])
          => /\ Len(yeses) = NumClusters
             /\ Range(yeses) = Ids
             /\ ListedTitles(resp.text) = AcceptedTitles
             /\ st.reoffer_attempts = 0

\* Every cluster was accepted at its first offer and the pools ran out.
C11_Witness ==
    /\ OfferedOnEmpty
    /\ prev.rejected = <<>>
    /\ \A i \in Ids : offers[i] = 1 /\ ~declined[i]
    /\ st.phase = "done"

\* C12 as stated: a declined cluster is offered again at most once, so no
\* cluster is offered more than twice.
C12_OfferedAtMostTwice ==
    \A i \in Ids : offers[i] <= 2

\* C12 amended: a declined cluster is offered again at most once in each
\* re-offer pass, and there are at most two passes, so no cluster is offered
\* more than three times.
C12_OneReofferPerPass ==
    \A i \in Ids :
        /\ offers[i] <= 1 + st.reoffer_attempts
        /\ offers[i] <= 3

\* A cluster declined twice is on offer for the third time.
C12_Witness ==
    /\ Offered
    /\ offers[st.current_idx] = 3

\* C13 as stated: no in reoffer_prompt ends the session with the Closing
\* Summary when something was accepted and with the re-offer-limit message
\* otherwise, whatever reoffer_attempts is.
C13_DeclineGivesLimitMessage ==
    (Submitted /\ prev.phase = "reoffer_prompt" /\ Intent = NO)
    => /\ st.phase = "done"
       /\ resp.done
       /\ IF prev.words_revealed # <<>>
          THEN resp.text \in closing_block(prev)
          ELSE resp.text = AskedTwice

\* C13 amended: with nothing accepted the text is the "asked twice" message
\* only when reoffer_attempts is 2; when it is 1 the text is the "session is
\* complete" line.
C13_DeclineEndsSession ==
    (Submitted /\ prev.phase = "reoffer_prompt" /\ Intent = NO)
    => /\ st.phase = "done"
       /\ resp.done
       /\ prev.reoffer_attempts \in { 1, 2 }
       /\ IF prev.words_revealed # <<>>
          THEN resp.text \in closing_block(prev)
          ELSE resp.text = IF prev.reoffer_attempts = 2
                           THEN AskedTwice ELSE SessionComplete

\* No to the first re-offer invitation with nothing accepted.
C13_Witness ==
    /\ Submitted
    /\ prev.phase = "reoffer_prompt"
    /\ Intent = NO
    /\ prev.reoffer_attempts = 1
    /\ prev.words_revealed = <<>>
    /\ st.phase = "done"

\* C14: yes in reoffer_prompt moves the declined pool back without losing or
\* duplicating an id: rejected is empty afterwards, first_offer_done is true,
\* the phase is await_continue, and the current cluster together with
\* remaining is exactly the former rejected pool.
C14_RecycleKeepsIds ==
    (Submitted /\ prev.phase = "reoffer_prompt" /\ Intent = YES)
    => /\ st.rejected = <<>>
       /\ st.first_offer_done
       /\ st.phase = "await_continue"
       /\ Range(st.remaining) \cup { st.current_idx } = Range(prev.rejected)
       /\ Len(st.remaining) + 1 = Len(prev.rejected)
       /\ NoDuplicates(st.remaining)
       /\ st.current_idx \notin Range(st.remaining)

\* Yes to the re-offer invitation with at least two clusters declined.
C14_Witness ==
    /\ Submitted
    /\ prev.phase = "reoffer_prompt"
    /\ Intent = YES
    /\ Len(prev.rejected) >= 2
    /\ st.phase = "await_continue"

\* C19: the Closing Summary depends on accepted and the drawn farewell only.
\* With nothing accepted it is the "no words revealed" line, without the
\* encouragement line; otherwise the header, every accepted title once in
\* acceptance order, then the encouragement line.  Exactly one farewell line
\* comes last and ends with . ! or ?
FarewellBodies == { line[1] : line \in Range(COURTEOUS_EXIT) }

ClosingShape(text, words) ==
    /\ Last(text) \in { ".", "!", "?" }
    /\ Occurrences(text, FarewellBodies) = 1
    /\ text[Len(text) - 1] \in FarewellBodies
    /\ text[Len(text) - 2] = "\n"
    /\ ListedTitles(text) = words
    /\ IF words = <<>>
       THEN /\ text[1] = NothingRevealedLine
            /\ Len(text) = 4
            /\ Occurrences(text, { EncouragementLine, SummaryHeaderLine }) = 0
       ELSE /\ text[1] = SummaryHeaderLine
            /\ Occurrences(text, { EncouragementLine }) = 1
            /\ text[Len(text) - 3] = EncouragementLine
            /\ Occurrences(text, { NothingRevealedLine }) = 0

C19_ClosingSummaryShape ==
    /\ \A text \in closing_block(st) : ClosingShape(text, st.words_revealed)
    /\ Cardinality(closing_block(st)) = Cardinality(choose_exit_blessing)
    /\ \A other \in new_session :
          closing_block([ other EXCEPT !.words_revealed = st.words_revealed ])
              = closing_block(st)
    /\ (Submitted /\ Intent \in { QUIT, STOP })
       => ClosingShape(resp.text, AcceptedTitles)

\* A session was ended by stop after two titles were accepted.
C19_Witness ==
    /\ Submitted
    /\ Intent = STOP
    /\ Len(st.words_revealed) >= 2
    /\ resp.text \in closing_block(st)

\* C20: answering only yes or no, a session is done after at most 6N+3
\* answers.
C20_DeclineLoopsBounded ==
    /\ turns <= 6 * NumClusters + 3
    /\ turns = 6 * NumClusters + 3 => st.phase = "done"

\* The longest dialogue: every cluster declined three times.
C20_Witness ==
    /\ turns = 6 * NumClusters + 3
    /\ st.phase = "done"


---------------------------------------------------------------------------
\* Vocabulary of the properties of the store

\* The id the last request asked for, and whether the store held it
AskedSid == requested_sid(request.ctx_sid, request.cookie)

Unknown == AskedSid = NoSid \/ AskedSid \notin DOMAIN before

StoreIntent == normalize(request.answer)

\* The session the last request was served on
Addressed ==
    IF request.op = "choose" /\ ~Unknown THEN AskedSid ELSE response.session_id

Stored == Values(SESSIONS, heap)

IsPermutation(seq) == Len(seq) = NumClusters /\ Range(seq) = Ids

\* The lists a stored session object holds
ListsOf(obj) == { obj[f] : f \in ListFields }

\* C15: a Submit with no session id, or with an id the store does not hold,
\* does not fail: a session is stored under an id the store did not hold, the
\* response carries that id, and the stored session is a fresh one (rejected
\* and accepted empty, reoffer_attempts 0, all N ids once) after the intro
\* step for the intent: yes offers the last id of the shuffle, no / quit /
\* stop end the session, anything else leaves it in intro.
C15_UnknownSidStartsFresh ==
    (request.op = "choose" /\ Unknown) =>
        LET new == response.session_id IN
        /\ new \notin DOMAIN before
        /\ new \notin { NoSid, StaleSid }
        /\ DOMAIN SESSIONS = DOMAIN before \cup { new }
        /\ LET s == Stored[new] IN
           /\ s.sid = new
           /\ s.rejected = <<>>
           /\ s.words_revealed = <<>>
           /\ s.reoffer_attempts = 0
           /\ response.done = (s.phase = "done")
           /\ CASE StoreIntent = YES ->
                     /\ s.phase = "await_continue"
                     /\ s.current_idx \in Ids
                     /\ IsPermutation(s.remaining \o << s.current_idx >>)
                [] StoreIntent \in { NO, QUIT, STOP } ->
                     /\ s.phase = "done"
                     /\ s.current_idx = None
                     /\ IsPermutation(s.remaining)
                [] OTHER ->
                     /\ s.phase = "intro"
                     /\ s.current_idx = None
                     /\ IsPermutation(s.remaining)

\* An expired id was sent next to a stored session, the answer was yes, and
\* the new session is stored with its first word offered
C15_Witness ==
    /\ request.op = "choose"
    /\ AskedSid = StaleSid
    /\ StoreIntent = YES
    /\ DOMAIN before # {}
    /\ response.session_id \in DOMAIN SESSIONS \ DOMAIN before
    /\ Stored[response.session_id].phase = "await_continue"

\* C16: sessions are isolated: a StartSession, or a Submit served on session
\* A, leaves every other stored session as it was, field by field; the id
\* StartSession stores under is one the store did not hold; and no two
\* stored sessions hold the same list.
C16_SessionsIsolated ==
    /\ request.op # "none" =>
         /\ \A b \in DOMAIN before \ { Addressed } :
              b \in DOMAIN SESSIONS /\ Stored[b] = before[b]
         /\ Addressed \in DOMAIN SESSIONS
    /\ request.op = "start" => response.session_id \notin DOMAIN before
    /\ \A a \in DOMAIN SESSIONS, b \in DOMAIN SESSIONS :
         a # b => ListsOf(SESSIONS[a]) \cap ListsOf(SESSIONS[b]) = {}

\* Two sessions are stored, and the last request popped a word from the
\* remaining list of one of them
C16_Witness ==
    /\ request.op = "choose"
    /\ ~Unknown
    /\ DOMAIN before \ { Addressed } # {}
    /\ Len(Stored[Addressed].remaining) < Len(before[Addressed].remaining)


---------------------------------------------------------------------------
\* Vocabulary of the properties of two concurrent requests

\* No handler is in the middle of its statements
Quiet == \A t \in Threads : pc[t] \in { "idle", "returned", "raised" }

AcceptedIds == { i \in Ids : In(CLUSTERS[i].title, cs.words_revealed) }

\* C17: with two Submit requests for one session served at once, once both
\* are served accepted holds no title twice; no id is duplicated across
\* remaining and rejected, and none is lost (every id is still to be offered,
\* on offer, declined or accepted); and the word on offer is not waiting in
\* remaining to be offered again.
C17_NoRepeatUnderRaces ==
    Quiet =>
        /\ NoDuplicates(cs.words_revealed)
        /\ NoDuplicates(cs.remaining \o cs.rejected)
        /\ Ids \subseteq Range(cs.remaining) \cup Range(cs.rejected)
                         \cup AcceptedIds \cup { cs.current_idx }
        /\ cs.current_idx \notin Range(cs.remaining)

\* C18: with two Submit requests for one session served at once,
\* reoffer_attempts never exceeds the limit of 2 and phase is set to
\* reoffer_prompt at most twice.
C18_ReofferCapUnderRaces ==
    /\ cs.reoffer_attempts <= ReofferLimit
    /\ entered <= ReofferLimit


---------------------------------------------------------------------------
\* Vocabulary of the properties of the normalizer

IsLower(a) == \A i \in DOMAIN a : \A k \in DOMAIN UpperCase : a[i] # UpperCase[k]

\* core is raw without its leading and trailing whitespace, in lower case
TrimmedLowered(raw, core) ==
    \E i \in 1 .. Len(raw) + 1 :
        LET j == i + Len(core) - 1 IN
        /\ j <= Len(raw)
        /\ \A k \in 1 .. Len(raw) : (k < i \/ k > j) => raw[k] \in Whitespace
        /\ \A k \in i .. j :
             \/ raw[k] = core[k - i + 1]
             \/ \E u \in DOMAIN UpperCase :
                  raw[k] = UpperCase[u] /\ core[k - i + 1] = LowerCase[u]
        /\ IsLower(core)
        /\ core # <<>> => core[1] \notin Whitespace /\ Last(core) \notin Whitespace

TableOf(intent) ==
    IF intent = YES THEN { << "y" >>, YES }
    ELSE IF intent = NO THEN { << "n" >>, NO }
    ELSE IF intent = QUIT THEN { << "q" >>, QUIT }
    ELSE { << "s" >>, STOP, << "e", "n", "o", "u", "g", "h" >>, << "e", "n", "d" >> }

\* C21: normalize returns yes / no / quit / stop exactly for the texts that,
\* trimmed and lower-cased, are in {y, yes} / {n, no} / {q, quit} /
\* {s, stop, enough, end}; every other text comes back trimmed and
\* lower-cased, a value outside the four intents; and normalizing the result
\* again returns it unchanged.
C21_NormalizeTable ==
    /\ a_calls >= 1 =>
         /\ \A intent \in Recognized :
              a_norm = intent <=> \E w \in TableOf(intent) : TrimmedLowered(a_raw, w)
         /\ a_norm \notin Recognized => TrimmedLowered(a_raw, a_norm)
    /\ a_calls = 2 => a_again = a_norm

\* A padded, capitalised "End" was normalized to stop, and stop again to stop
C21_Witness ==
    /\ a_calls = 2
    /\ a_raw = << " ", "E", "n", "d", " " >>
    /\ a_norm = STOP
    /\ a_again = STOP


---------------------------------------------------------------------------
\* Vocabulary of the properties of Offer-Next

\* The last Submit ran offer_next_word
OfferNextRan ==
    /\ Submitted
    /\ Intent = YES
    /\ prev.phase \in { "intro", "decline_confirm", "post_reveal", "reoffer_prompt" }

\* The pools as offer_next_word found them (after the recycling of a yes in
\* reoffer_prompt, which empties rejected and refills remaining from it)
FoundRemainingEmpty ==
    IF prev.phase = "reoffer_prompt" THEN prev.rejected = <<>> ELSE prev.remaining = <<>>

FoundRejectedEmpty ==
    IF prev.phase = "reoffer_prompt" THEN TRUE ELSE prev.rejected = <<>>

\* C22: declined clusters are re-offered only once nothing never-offered is
\* left: offer_next_word enters reoffer_prompt exactly when it finds remaining
\* empty, rejected non-empty and reoffer_attempts < 2; in reoffer_prompt
\* remaining is empty, rejected is not, and reoffer_attempts is 1 or 2; and
\* a yes after all N clusters of the first pass were declined enters
\* reoffer_prompt with all N ids in rejected.
C22_ReofferOnlyWhenPoolEmpty ==
    /\ OfferNextRan =>
         (st.phase = "reoffer_prompt"
            <=> (FoundRemainingEmpty /\ ~FoundRejectedEmpty
                 /\ prev.reoffer_attempts < ReofferLimit))
    /\ st.phase = "reoffer_prompt" =>
         /\ st.remaining = <<>>
         /\ st.rejected # <<>>
         /\ st.reoffer_attempts \in 1 .. ReofferLimit
         /\ OfferNextRan
    /\ (OfferNextRan /\ prev.phase = "decline_confirm" /\ prev.reoffer_attempts = 0
        /\ \A i \in Ids : declined[i] /\ offers[i] = 1) =>
         /\ st.phase = "reoffer_prompt"
         /\ Len(st.rejected) = NumClusters
         /\ Range(st.rejected) = Ids

\* All N clusters were declined in the first pass and the yes that followed
\* entered reoffer_prompt
C22_Witness ==
    /\ OfferNextRan
    /\ prev.phase = "decline_confirm"
    /\ prev.reoffer_attempts = 0
    /\ \A i \in Ids : declined[i] /\ offers[i] = 1
    /\ st.phase = "reoffer_prompt"
    /\ st.reoffer_attempts = 1


OpeningHintLine == "Yes opens the door, no keeps it shut."

\* C23: in intro of a fresh session, yes enters await_continue (not
\* reoffer_prompt, not done) with the last id of remaining taken out of it as
\* the current cluster, and answers, not terminally, with that cluster's
\* first-time intro line and, last, the opening hint; no ends the session
\* with a terminal one-line goodbye that is not the Closing Summary and
\* leaves remaining, rejected and accepted as they were.
C23_IntroYesOffersNoEnds ==
    (Submitted /\ prev.phase = "intro") =>
        /\ Len(prev.remaining) = NumClusters
        /\ Intent = YES =>
             /\ st.phase = "await_continue"
             /\ st.current_idx = Last(prev.remaining)
             /\ st.remaining = Front(prev.remaining)
             /\ st.current_idx \notin Range(st.remaining)
             /\ st.rejected = <<>> /\ st.words_revealed = <<>>
             /\ IsPrefix(CLUSTERS[st.current_idx].intro_line, resp.text)
             /\ IsSuffix(<< "\n", OpeningHintLine >>, resp.text)
             /\ Occurrences(resp.text, { OpeningHintLine }) = 1
             /\ ~resp.done
        /\ Intent = NO =>
             /\ st.phase = "done"
             /\ resp.done
             /\ Len(resp.text) = 1
             /\ resp.text \in Range(GOODBYES)
             /\ ~ClosingShape(resp.text, st.words_revealed)
             /\ Occurrences(resp.text, { NothingRevealedLine, SummaryHeaderLine }
                                       \cup FarewellBodies) = 0
             /\ st.remaining = prev.remaining
             /\ st.rejected = prev.rejected
             /\ st.words_revealed = prev.words_revealed

\* The fresh session was summoned and its first word is on offer
C23_Witness ==
    /\ Submitted
    /\ prev.phase = "intro"
    /\ Intent = YES
    /\ st.phase = "await_continue"
    /\ st.current_idx \in Ids
    /\ ~resp.done

\* The summons was refused and the session ended with a goodbye
C23_WitnessNo ==
    /\ Submitted
    /\ prev.phase = "intro"
    /\ Intent = NO
    /\ st.phase = "done"
    /\ resp.done


\* C24: reoffer_prompt does not ask again: every intent other than yes, quit
\* and stop is treated as no, sets phase done and gets a terminal response,
\* the one a no would get, with the lists left as they were.
C24_ReofferNonYesEnds ==
    (Submitted /\ prev.phase = "reoffer_prompt" /\ Intent # YES) =>
        /\ st.phase = "done"
        /\ resp.done
        /\ Intent \notin { QUIT, STOP } =>
             /\ [ st |-> st, resp |-> resp ] \in choose(prev, NO)
             /\ st = [ prev EXCEPT !.phase = "done" ]

\* An answer that is no intent ended the session in reoffer_prompt
C24_Witness ==
    /\ Submitted
    /\ prev.phase = "reoffer_prompt"
    /\ Intent \notin Recognized
    /\ st.phase = "done"
    /\ resp.done


\* The ids whose title is in the accepted list of session s
AcceptedSet(s) == { i \in Ids : In(CLUSTERS[i].title, s.words_revealed) }

\* C25: no cluster id is lost or duplicated: remaining and rejected hold no
\* id twice, every id is in at most one of remaining, rejected and the
\* accepted set, every id is in one of them or is the current cluster, and
\* an accepted id stays accepted and out of remaining and rejected.
C25_IdsConserved ==
    /\ NoDuplicates(st.remaining)
    /\ NoDuplicates(st.rejected)
    /\ Range(st.remaining) \cap Range(st.rejected) = {}
    /\ Range(st.remaining) \cap AcceptedSet(st) = {}
    /\ Range(st.rejected) \cap AcceptedSet(st) = {}
    /\ Ids = Range(st.remaining) \cup Range(st.rejected) \cup AcceptedSet(st)
                 \cup ({ st.current_idx } \cap Ids)
    /\ AcceptedSet(prev) \subseteq AcceptedSet(st)
    /\ AcceptedSet(prev) \cap (Range(st.remaining) \cup Range(st.rejected)) = {}

\* A declined word came back in the re-offer pass and was accepted, while
\* another is still declined and a third still waits
C25_Witness ==
    /\ st.reoffer_attempts = 1
    /\ st.phase = "post_reveal"
    /\ declined # [ i \in Ids |-> FALSE ]
    /\ AcceptedSet(st) # {}
    /\ st.remaining # <<>>
    /\ \E i \in AcceptedSet(st) : offers[i] = 2


Phases ==
    { "intro", "await_continue", "decline_confirm", "post_reveal", "reoffer_prompt",
      "done" }

\* C26: while a word is on offer the current cluster is a valid id that is
\* in neither remaining nor rejected and whose title is not accepted, so the
\* "spirits are quiet" guard of await_continue is never taken; and in every
\* state every answer has a transition that returns one non-empty text and a
\* terminal flag.
C26_CurrentClusterResolvable ==
    /\ st.phase = "await_continue" =>
         /\ st.current_idx \in Ids
         /\ st.current_idx \notin Range(st.remaining)
         /\ st.current_idx \notin Range(st.rejected)
         /\ st.current_idx \notin AcceptedSet(st)
    /\ (Submitted /\ prev.phase = "await_continue") => resp.text # SpiritsQuiet
    /\ \A raw \in RawAnswers :
         /\ choose(st, raw) # {}
         /\ \A o \in choose(st, raw) :
              /\ o.st.phase \in Phases
              /\ o.resp.text # <<>>
              /\ o.resp.done \in BOOLEAN

\* A word of the re-offer pass is on offer after one word was accepted and
\* another declined again
C26_Witness ==
    /\ st.phase = "await_continue"
    /\ st.reoffer_attempts >= 1
    /\ st.current_idx \in Ids
    /\ st.rejected # <<>>
    /\ st.words_revealed # <<>>


\* C27: the terminal flag agrees with the state: the response of every
\* Submit has done true exactly when the session's phase is done after it.
C27_DoneFlagAgrees ==
    Submitted => (resp.done <=> st.phase = "done")

\* An answer sent to a session already done got a terminal response again
C27_Witness ==
    /\ Submitted
    /\ prev.phase = "done"
    /\ st.phase = "done"
    /\ resp.done
    /\ Intent = YES


RECURSIVE SumUpTo(_, _)
SumUpTo(f, n) == IF n = 0 THEN 0 ELSE f[n - 1] + SumUpTo(f, n - 1)

\* How many offers the session made
TotalOffers == SumUpTo(offers, NumClusters)

\* C28: a cluster is offered at most three times in a session (its first
\* offer and one in each of at most two re-offer passes), so the session
\* makes at most 3N offers; and every offer of a cluster but its last one was
\* declined, so the third offer comes only after two declines.
C28_AtMostThreeOffers ==
    /\ \A i \in Ids :
         /\ offers[i] <= ReofferLimit + 1
         /\ declines[i] <= offers[i]
         /\ offers[i] >= 1 => declines[i] >= offers[i] - 1
         /\ offers[i] = ReofferLimit + 1 => declines[i] >= ReofferLimit
    /\ TotalOffers <= (ReofferLimit + 1) * NumClusters

\* Every cluster was declined twice and offered a third time: 3N offers
C28_Witness ==
    /\ TotalOffers = (ReofferLimit + 1) * NumClusters
    /\ \A i \in Ids : offers[i] = ReofferLimit + 1 /\ declines[i] >= ReofferLimit
    /\ st.phase = "await_continue"


GuidanceLines == { OPENING_HINT[1], SHORT_HINT[1] }

\* C29 as stated: after the first offer the short hint is given once; every
\* other later offer carries no guidance line.
C29_ShortHintOnceThereafter ==
    hinted.short <= 1

\* C29 amended: the opening hint is given as guidance exactly once, on the
\* first offer (its sentence is also one of the re-prompts for an answer
\* that is no intent in intro, before that offer), and
\* INSTRUCTION_SHOWN and first_offer_done never return to false; every
\* later offer carries at most one guidance line, never the opening hint: the
\* short hint, as its last line, when SHORT_HINT_SHOWN was false (it is reset
\* by every accept, decline and re-offer invitation, so the short hint
\* returns on the offer after each decline and after each recycling), and
\* none otherwise.
C29_GuidanceGating ==
    /\ hinted.opening = (IF TotalOffers >= 1 THEN 1 ELSE 0)
    /\ st.INSTRUCTION_SHOWN <=> TotalOffers >= 1
    /\ prev.INSTRUCTION_SHOWN => st.INSTRUCTION_SHOWN
    /\ prev.first_offer_done => st.first_offer_done
    /\ Submitted /\ In(OPENING_HINT[1], resp.text) =>
         /\ prev.phase = "intro"
         /\ \/ Offered /\ TotalOffers = 1
            \/ /\ Intent \notin Recognized
               /\ resp.text \in choose_invalid_yn
               /\ st = prev
    /\ (Offered /\ TotalOffers = 1) =>
         /\ Occurrences(resp.text, GuidanceLines) = 1
         /\ Last(resp.text) = OPENING_HINT[1]
    /\ (Offered /\ TotalOffers >= 2) =>
         /\ Occurrences(resp.text, { OPENING_HINT[1] }) = 0
         /\ Occurrences(resp.text, GuidanceLines) <= 1
         /\ In(SHORT_HINT[1], resp.text) <=> ~prev.SHORT_HINT_SHOWN
         /\ In(SHORT_HINT[1], resp.text) => Last(resp.text) = SHORT_HINT[1]
         /\ st.SHORT_HINT_SHOWN

\* Two later offers carried the short hint, each after a decline
C29_Witness ==
    /\ Offered
    /\ TotalOffers >= 3
    /\ hinted.short = ManyHints
    /\ Last(resp.text) = SHORT_HINT[1]
    /\ prev.phase = "decline_confirm"

=============================================================================
